---- MODULE Spec2Model ----
(***************************************************************************)
(* Connection-lifecycle wrapper DbMgt of sqos/dbwrap, in its four          *)
(* generations:                                                            *)
(*   GenDb    package db            (src/db.go 315-506, jinzhu/gorm)       *)
(*   GenPg    package dbwrap, pg    (src/unnamed/part_001, jinzhu/gorm)    *)
(*   GenMulti package dbwrap, 4 drv (src/unnamed/part_000, jinzhu/gorm)    *)
(*   GenV2    package dbwrap v2     (src/db.go 1-313, gorm.io/gorm)        *)
(* Goroutines call the methods of one shared DbMgt; every method is cut    *)
(* into steps at its mutex operations and at its reads and writes of the   *)
(* shared fields, so that interleavings of concurrent callers are states   *)
(* of the model.                                                           *)
(***************************************************************************)
EXTENDS Integers, Sequences, FiniteSets, TLC

\* ------------------------------------------------------------- bounds
NumProcs == 2       \* goroutines calling into the DbMgt
MaxConns == 2       \* connection objects gorm.Open may hand out
MaxModels == 2      \* model ids, and length of the model list
MaxFuncs == 2       \* association function ids, and length of their list
MaxTicks == 2       \* keepalive ticks that are counted
MaxDsnLen == 16     \* SetPgParam (GenV2) appends to a dsn of at most this many pieces

Procs == 1..NumProcs
ConnIds == 1..MaxConns
ModelIds == 1..MaxModels
NilFunc == 0                      \* a nil AssociationFunc
FuncIds == 0..MaxFuncs            \* NilFunc and the non-nil functions
Nil == 0                          \* c.db == nil
NoOwner == 0                      \* the mutex is free

Gens == {"GenDb", "GenPg", "GenMulti", "GenV2"}
\* the driver names Open's switch accepts (GenMulti); "" is the zero value
Drivers == {"mysql", "postgres", "sqlite3", "mssql"}

\* the drivers the callers of Set*Param choose among
SetterInputs == {"postgres", "mysql"}

\* arguments of the variadic Register / CreateTables
ModelArgs == {<<>>} \cup {<<m>> : m \in ModelIds}

\* ------------------------------------------------- connection strings
\* A string is a sequence of pieces: the literals of the source and the
\* parameter values; an empty value contributes no piece.
Str(v) == IF v = "" THEN <<>> ELSE <<v>>
Verb == "%s"

\* fmt.Sprintf with %s verbs: an argument per verb, "%!s(MISSING)" for a verb
\* that has none, "%!(EXTRA)" for arguments that are left over
RECURSIVE Sprintf(_, _)
Sprintf(f, a) ==
  IF f = <<>> THEN (IF a = <<>> THEN <<>> ELSE <<"%!(EXTRA)">>)
  ELSE IF Head(f) = Verb
    THEN (IF a = <<>> THEN <<"%!s(MISSING)">> ELSE Str(Head(a)))
         \o Sprintf(Tail(f), IF a = <<>> THEN a ELSE Tail(a))
    ELSE <<Head(f)>> \o Sprintf(Tail(f), a)

\* "%s:%s@(%s:%s)/%s?charset=%s&parseTime=%s&loc=%s" (GenMulti)
MysqlFormat ==
  <<Verb, ":", Verb, "@", "(", Verb, ":", Verb, ")/", Verb,
    "?charset=", Verb, "&parseTime=", Verb, "&loc=", Verb>>
\* "%s:%s@tcp(%s:%s)/%s?charset=%s&parseTime=%s&loc=%s" (GenV2)
MysqlTcpFormat ==
  <<Verb, ":", Verb, "@", "tcp", "(", Verb, ":", Verb, ")/", Verb,
    "?charset=", Verb, "&parseTime=", Verb, "&loc=", Verb>>
\* "sqlserver://%s:%s@%s:%s?database=%s"
MssqlFormat ==
  <<"sqlserver://", Verb, ":", Verb, "@", Verb, ":", Verb, "?database=", Verb>>

\* the fields of a DbMgt that hold connection parameters, at their zero values
ZeroCfg ==
  [Host |-> "", Port |-> "", User |-> "", Password |-> "", Name |-> "",
   Ssl |-> FALSE, CharSet |-> "", ParseTime |-> "", Loc |-> "", Path |-> "",
   dsn |-> <<>>]

\* a call of a setter with its arguments (those the setter has not are "")
SetterCall(fn, host, port, user, password, name, ssl, charset, loc, parseTime, path) ==
  [fn |-> fn, host |-> host, port |-> port, user |-> user,
   password |-> password, name |-> name, ssl |-> ssl, charset |-> charset,
   loc |-> loc, parseTime |-> parseTime, path |-> path]
NoCall == SetterCall("none", "", "", "", "", "", FALSE, "", "", FALSE, "")

PgCalls(fn) ==
  {SetterCall(fn, "h1", port, "u1", "p1", "n1", ssl, "", "", FALSE, "") :
     port \in {"", "5432"}, ssl \in BOOLEAN}
MysqlCalls ==
  {SetterCall("SetMysqlParam", "h2", "3306", "u2", "p2", "n2", FALSE, cs, loc, pt, "") :
     cs \in {"", "utf8mb4"}, loc \in {"", "UTC"}, pt \in BOOLEAN}
Sqlite3Calls ==
  {SetterCall("SetSqlite3Param", "", "", "", "", "", FALSE, "", "", FALSE, "f.db")}
MssqlCalls(fn) ==
  {SetterCall(fn, "h3", "1433", "u3", "p3", "n3", FALSE, "", "", FALSE, "")}

\* the setters each generation has, with the arguments callers pass
SetterCalls(g) ==
  CASE g \in {"GenDb", "GenPg"} -> PgCalls("SetDbParam")
    [] g = "GenMulti" -> PgCalls("SetPgParam") \cup MysqlCalls \cup Sqlite3Calls
                           \cup MssqlCalls("SetMssqlParam")
    [] g = "GenV2" -> PgCalls("SetDbParam") \cup PgCalls("SetPgParam")
                        \cup MysqlCalls \cup Sqlite3Calls
                        \cup MssqlCalls("SetSqlServerParam")

\* the driver a setter selects: c.dbDriver (GenMulti), c.openFunc (GenV2);
\* GenDb and GenPg have no driver field
DriverOf(fn) ==
  CASE fn \in {"SetDbParam", "SetPgParam"} -> "postgres"
    [] fn = "SetMysqlParam" -> "mysql"
    [] fn = "SetSqlite3Param" -> "sqlite3"
    [] fn \in {"SetMssqlParam", "SetSqlServerParam"} -> "mssql"

\* the calls SetParam makes for a driver
DefaultCall(d) ==
  IF d = "postgres"
    THEN SetterCall("SetPgParam", "h1", "5432", "u1", "p1", "n1", FALSE, "", "", FALSE, "")
    ELSE SetterCall("SetMysqlParam", "h2", "3306", "u2", "p2", "n2", FALSE, "utf8mb4", "UTC", TRUE, "")

BoolStr(b) == IF b THEN "True" ELSE "False"

\* host/port/user/password/dbname/sslmode key-value string: constructPgArgs
\* (GenDb, GenPg, GenMulti) with hostOpt, the body of SetPgParam (GenV2),
\* which writes "host=" whatever the host is
PgArgs(host, port, user, password, name, ssl, hostOpt) ==
  (IF hostOpt /\ host = "" THEN <<>> ELSE <<"host=">> \o Str(host))
  \o (IF port = "" THEN <<>> ELSE <<" port=", port>>)
  \o (IF user = "" THEN <<>> ELSE <<" user=", user>>)
  \o (IF password = "" THEN <<>> ELSE <<" password=", password>>)
  \o (IF name = "" THEN <<>> ELSE <<" dbname=", name>>)
  \o (IF ssl THEN <<" sslmode=enable">> ELSE <<" sslmode=disable">>)

constructPgArgs(c) ==
  PgArgs(c.Host, c.Port, c.User, c.Password, c.Name, c.Ssl, TRUE)
constructMysqlArgs(c) ==
  Sprintf(MysqlFormat,
          <<c.User, c.Password, c.Host, c.Port, c.CharSet, c.ParseTime, c.Loc>>)
constructSqlite3Args(c) == Str(c.Path)
constructMssqlArgs(c) ==
  Sprintf(MssqlFormat, <<c.User, c.Password, c.Host, c.Port, c.Name>>)

\* the fields a setter of GenDb, GenPg or GenMulti assigns
SetFields(c, a) ==
  CASE a.fn \in {"SetDbParam", "SetPgParam"} ->
         [c EXCEPT !.Host = a.host, !.Port = a.port, !.User = a.user,
                   !.Password = a.password, !.Name = a.name, !.Ssl = a.ssl]
    [] a.fn = "SetMysqlParam" ->
         [c EXCEPT !.Host = a.host, !.Port = a.port, !.User = a.user,
                   !.Password = a.password, !.Name = a.name,
                   !.CharSet = a.charset, !.Loc = a.loc,
                   !.ParseTime = BoolStr(a.parseTime)]
    [] a.fn = "SetSqlite3Param" -> [c EXCEPT !.Path = a.path]
    [] a.fn = "SetMssqlParam" ->
         [c EXCEPT !.Host = a.host, !.Port = a.port, !.User = a.user,
                   !.Password = a.password, !.Name = a.name]

\* the dsn a setter of GenV2 leaves in c.dsn
SetDsn(c, a) ==
  CASE a.fn \in {"SetDbParam", "SetPgParam"} ->
         [c EXCEPT !.dsn = @ \o PgArgs(a.host, a.port, a.user, a.password,
                                       a.name, a.ssl, FALSE)]
    [] a.fn = "SetMysqlParam" ->
         [c EXCEPT !.dsn =
            Sprintf(MysqlTcpFormat,
                    <<a.user, a.password, a.host, a.port, a.name,
                      IF a.charset = "" THEN "utf8" ELSE a.charset,
                      BoolStr(a.parseTime),
                      IF a.loc = "" THEN "Local" ELSE a.loc>>)]
    [] a.fn = "SetSqlite3Param" -> [c EXCEPT !.dsn = Str(a.path)]
    [] a.fn = "SetSqlServerParam" ->
         [c EXCEPT !.dsn =
            Sprintf(MssqlFormat, <<a.user, a.password, a.host, a.port, a.name>>)]

\* the configuration after setter call a on configuration c
ApplySetter(g, c, a) == IF g = "GenV2" THEN SetDsn(c, a) ELSE SetFields(c, a)

\* what Open hands to gorm.Open: the driver and the connection string
ConnTarget(g, d, c) ==
  CASE g \in {"GenDb", "GenPg"} -> <<"postgres", constructPgArgs(c)>>
    [] g = "GenV2" -> <<d, c.dsn>>
    [] g = "GenMulti" ->
         CASE d = "mysql" -> <<d, constructMysqlArgs(c)>>
           [] d = "postgres" -> <<d, constructPgArgs(c)>>
           [] d = "sqlite3" -> <<d, constructSqlite3Args(c)>>
           [] d = "mssql" -> <<d, constructMssqlArgs(c)>>
           [] OTHER -> <<d, <<>>>>

VARIABLES
  gen,              \* which generation of the package is running
  dbDriver,         \* c.dbDriver (GenMulti) / c.openFunc set (GenV2); "" unset
  cfg,              \* the connection parameter fields, c.dsn (GenV2)
  lastSet,          \* the last setter call made on the DbMgt
  other,            \* a second DbMgt, made by the caller: its parameters and models
  db,               \* c.db: Nil or a connection id
  connState,        \* per connection: "none", "open", "failed", "closed"
  lock,             \* c.lock: NoOwner or the goroutine holding it
  models,           \* c.models
  associationFunc,  \* c.associationFunc
  crashed,          \* a panic has terminated the process
  stable,           \* environment: the database accepts every connection from now on
  ctxDone,          \* the context passed to Keepalive is done
  kaTicks,          \* ticks Keepalive has handled (counted up to MaxTicks)
  kaPings,          \* pings Keepalive has issued
  pc,               \* per goroutine: position in the method it runs
  ctx,              \* per goroutine: who called Open ("call", "first", "loop")
  err,              \* per goroutine: the error value of its last step
  h0,               \* per goroutine: c.db != nil when its Open call began
  attempted,        \* per goroutine: its current Open call invoked gorm.Open
  args,             \* per goroutine: the variadic argument of its call
  local,            \* per goroutine: CreateTables' read of c.models
  evlog,            \* per goroutine: driver and log events of its call
  outer,            \* per goroutine: the combined operation it runs, or "none"
  ret,              \* per goroutine: what its last call returned
  regDone           \* models handed to a finished Register call

vars == <<cfg, lastSet, other, gen, dbDriver, db, connState, lock, models, associationFunc, crashed,
          stable, ctxDone, kaTicks, kaPings, pc, ctx, err, h0, attempted, args,
          local, evlog, outer, ret, regDone>>

shared == <<cfg, lastSet, other, gen, dbDriver, db, connState, models, associationFunc, crashed,
            stable, ctxDone, kaTicks, kaPings, regDone>>
locals == <<ctx, err, h0, attempted, args, local, evlog, outer>>

NoRet == "none"

\* a DbMgt as &DbMgt{} / New make it, as far as the second instance goes
ZeroDbMgt == [cfg |-> ZeroCfg, dbDriver |-> "", models |-> <<>>]

InitCommon ==
  /\ cfg = ZeroCfg
  /\ lastSet = NoCall
  /\ other = ZeroDbMgt
  /\ db = Nil
  /\ connState = [c \in ConnIds |-> "none"]
  /\ lock = NoOwner
  /\ models = <<>>
  /\ associationFunc = <<>>
  /\ crashed = FALSE
  /\ stable = FALSE
  /\ ctxDone = FALSE
  /\ kaTicks = 0
  /\ kaPings = 0
  /\ pc = [p \in Procs |-> "idle"]
  /\ ctx = [p \in Procs |-> "call"]
  /\ err = [p \in Procs |-> "nil"]
  /\ h0 = [p \in Procs |-> FALSE]
  /\ attempted = [p \in Procs |-> FALSE]
  /\ args = [p \in Procs |-> <<>>]
  /\ local = [p \in Procs |-> <<>>]
  /\ evlog = [p \in Procs |-> <<>>]
  /\ outer = [p \in Procs |-> "none"]
  /\ ret = [p \in Procs |-> NoRet]
  /\ regDone = {}

\* the state after construction: nothing configured, nothing opened
Init == gen \in Gens /\ dbDriver = "" /\ InitCommon

\* ------------------------------------------------------------ helpers
\* the connection ids gorm.Open has not handed out yet
FreeConns == {c \in ConnIds : connState[c] = "none"}
NewConn == CHOOSE c \in FreeConns : \A d \in FreeConns : c <= d

Elems(s) == {s[i] : i \in 1..Len(s)}

\* sync.Mutex
Lock(p) == lock = NoOwner /\ lock' = p
Unlock(p) == lock' = NoOwner

\* a goroutine moves to position q, the other goroutines stay
Goto(p, q) == pc' = [pc EXCEPT ![p] = q]

\* a goroutine's locals outside a call
Forget(p) ==
  /\ ctx' = [ctx EXCEPT ![p] = "call"]
  /\ err' = [err EXCEPT ![p] = "nil"]
  /\ h0' = [h0 EXCEPT ![p] = FALSE]
  /\ attempted' = [attempted EXCEPT ![p] = FALSE]
  /\ args' = [args EXCEPT ![p] = <<>>]
  /\ local' = [local EXCEPT ![p] = <<>>]
  /\ evlog' = [evlog EXCEPT ![p] = <<>>]
  /\ outer' = [outer EXCEPT ![p] = "none"]

\* the call of a method begins at position q with the variadic argument a
Start(p, q, a, who) ==
  /\ ~crashed
  /\ pc[p] = "idle"
  /\ Goto(p, q)
  /\ ret' = [ret EXCEPT ![p] = NoRet]
  /\ args' = [args EXCEPT ![p] = a]
  /\ ctx' = [ctx EXCEPT ![p] = who]
  /\ h0' = [h0 EXCEPT ![p] = (q = "open_lock" /\ db # Nil)]
  /\ UNCHANGED <<err, attempted, local, evlog, outer>>

\* a call returns: the goroutine is idle again and its locals are gone
Return(p) ==
  /\ Goto(p, "idle")
  /\ Forget(p)

\* a step inside a call that leaves the locals alone
Stay(p, q) ==
  /\ Goto(p, q)
  /\ UNCHANGED locals

\* a panic: nothing recovers it, the process ends
Panic(p, q) ==
  /\ Goto(p, q)
  /\ crashed' = TRUE

\* ----------------------------------------------------------- setters
\* a setter call: SetDbParam / SetPgParam / SetMysqlParam / SetSqlite3Param /
\* SetMssqlParam (SetSqlServerParam in GenV2).  No setter takes the mutex.
\* GenMulti and GenV2 choose the driver; GenDb and GenPg have no driver field,
\* their only setter stores the postgres parameters.
Setter(p, a) ==
  /\ ~crashed
  /\ pc[p] = "idle"
  /\ a \in SetterCalls(gen)
  /\ (gen = "GenV2" /\ DriverOf(a.fn) = "postgres") => Len(cfg.dsn) <= MaxDsnLen
  /\ cfg' = ApplySetter(gen, cfg, a)
  /\ dbDriver' = IF gen \in {"GenMulti", "GenV2"} THEN DriverOf(a.fn) ELSE dbDriver
  /\ lastSet' = a
  /\ UNCHANGED <<other, gen, db, connState, lock, models, associationFunc, crashed,
                 stable, ctxDone, kaTicks, kaPings, pc, ret, regDone>>
  /\ UNCHANGED locals

\* the callers that only choose between the drivers
SetParam(p, d) ==
  /\ gen \in {"GenMulti", "GenV2"}
  /\ Setter(p, DefaultCall(d))

\* -------------------------------------------------------------- Open
OpenCall(p) ==
  /\ Start(p, "open_lock", <<>>, "call")
  /\ UNCHANGED lock
  /\ UNCHANGED shared

\* OpenLock without the mutex: the goroutine enters Open's body at once
OpenLockNoMutex(p) ==
  /\ ~crashed
  /\ pc[p] = "open_lock"
  /\ Goto(p, "open_check")
  /\ UNCHANGED <<lock, ret>>
  /\ UNCHANGED shared
  /\ UNCHANGED locals

\* c.lock.Lock()
OpenLock(p) ==
  /\ ~crashed
  /\ pc[p] = "open_lock"
  /\ Lock(p)
  /\ Goto(p, "open_check")
  /\ UNCHANGED ret
  /\ UNCHANGED shared
  /\ UNCHANGED locals

\* OpenCheck without the guard: an attempt is made whatever c.db holds
OpenCheckNoGuard(p) ==
  /\ ~crashed
  /\ pc[p] = "open_check"
  /\ Goto(p, "open_attempt")
  /\ UNCHANGED <<lock, ret>>
  /\ UNCHANGED shared
  /\ UNCHANGED locals

\* if c.db != nil { return nil }
OpenCheck(p) ==
  /\ ~crashed
  /\ pc[p] = "open_check"
  /\ IF db # Nil
       THEN /\ Goto(p, "open_unlock")
            /\ err' = [err EXCEPT ![p] = "nil"]
       ELSE /\ Goto(p, "open_attempt")
            /\ UNCHANGED err
  /\ UNCHANGED <<lock, ret, ctx, h0, attempted, args, local, evlog, outer>>
  /\ UNCHANGED shared

\* what the driver answers to one connection attempt: gorm.Open fails, or
\* (GenV2) db.DB() or sqlDB.Ping() fails after it, or all succeed; once the
\* database is stable every attempt succeeds
Outcomes ==
  IF stable THEN {"ok"}
  ELSE IF gen = "GenV2" THEN {"ok", "openErr", "dbErr", "pingErr"}
  ELSE {"ok", "openErr"}

\* the value the failed gorm.Open of jinzhu/gorm returns beside its error:
\* nil, or a *gorm.DB whose connection never opened (it builds the DB before
\* it pings, and returns it with the ping's error)
FailedHandles == {Nil} \cup (IF FreeConns = {} THEN {} ELSE {NewConn})

\* the attempt stores a handle to an opened connection and returns nil
OpenSucceeds(p) ==
  /\ FreeConns # {}
  /\ db' = NewConn
  /\ connState' = [connState EXCEPT ![NewConn] = "open"]
  /\ err' = [err EXCEPT ![p] = "nil"]

\* the attempt failed and c.db is left alone (GenPg, GenMulti, GenV2)
OpenFailsGuarded(p) ==
  /\ err' = [err EXCEPT ![p] = "err"]
  /\ UNCHANGED <<db, connState>>

\* the attempt failed and c.db takes what gorm.Open returned (GenDb:
\* c.db, err = gorm.Open(...))
OpenFailsUnguarded(p) ==
  /\ err' = [err EXCEPT ![p] = "err"]
  /\ \E h \in FailedHandles :
       /\ db' = h
       /\ connState' = IF h = Nil THEN connState
                       ELSE [connState EXCEPT ![h] = "failed"]

\* GenV2 with no Set*Param call yet: c.openFunc is nil and calling it panics
OpenNilFunc(p) ==
  /\ ~crashed
  /\ pc[p] = "open_attempt"
  /\ gen = "GenV2"
  /\ dbDriver = ""
  /\ Panic(p, "panicked")
  /\ UNCHANGED <<cfg, lastSet, other, gen, dbDriver, db, connState, lock, models, associationFunc,
                 stable, ctxDone, kaTicks, kaPings, ret, regDone>>
  /\ UNCHANGED locals

\* GenMulti: the switch's default branch, no attempt is made
OpenNotSupported(p) ==
  /\ ~crashed
  /\ pc[p] = "open_attempt"
  /\ gen = "GenMulti"
  /\ dbDriver \notin Drivers
  /\ Goto(p, "open_unlock")
  /\ err' = [err EXCEPT ![p] = "err"]
  /\ UNCHANGED <<lock, ret, ctx, h0, attempted, args, local, evlog, outer>>
  /\ UNCHANGED shared

\* gorm.Open(...) and the assignment of c.db
OpenAttempt(p) ==
  /\ ~crashed
  /\ pc[p] = "open_attempt"
  /\ gen = "GenMulti" => dbDriver \in Drivers
  /\ gen = "GenV2" => dbDriver # ""
  /\ attempted' = [attempted EXCEPT ![p] = TRUE]
  /\ \E o \in Outcomes :
       IF o = "ok" THEN OpenSucceeds(p)
       ELSE IF gen = "GenDb" THEN OpenFailsUnguarded(p)
       ELSE OpenFailsGuarded(p)
  /\ Goto(p, "open_unlock")
  /\ UNCHANGED <<cfg, lastSet, other, gen, dbDriver, lock, models, associationFunc, crashed, stable,
                 ctxDone, kaTicks, kaPings, ret, regDone>>
  /\ UNCHANGED <<ctx, h0, args, local, evlog, outer>>

\* OpenUnlock with the mutex released on the successful return only
OpenUnlockOnSuccessOnly(p) ==
  /\ ~crashed
  /\ pc[p] = "open_unlock"
  /\ lock' = IF err[p] = "nil" THEN NoOwner ELSE lock
  /\ CASE ctx[p] = "call"  -> Return(p)
       [] ctx[p] = "first" -> Stay(p, "ouo_first")
       [] ctx[p] = "loop"  -> Stay(p, "ouo_loop")
  /\ UNCHANGED ret
  /\ UNCHANGED shared

\* defer c.lock.Unlock(), and the return to Open's caller
OpenUnlock(p) ==
  /\ ~crashed
  /\ pc[p] = "open_unlock"
  /\ Unlock(p)
  /\ CASE ctx[p] = "call"  -> Return(p)
       [] ctx[p] = "first" -> Stay(p, "ouo_first")
       [] ctx[p] = "loop"  -> Stay(p, "ouo_loop")
  /\ UNCHANGED ret
  /\ UNCHANGED shared

\* ------------------------------------------------------------- Close
CloseCall(p) ==
  /\ Start(p, "close_lock", <<>>, "call")
  /\ UNCHANGED lock
  /\ UNCHANGED shared

CloseLock(p) ==
  /\ ~crashed
  /\ pc[p] = "close_lock"
  /\ Lock(p)
  /\ Goto(p, "close_body")
  /\ UNCHANGED ret
  /\ UNCHANGED shared
  /\ UNCHANGED locals

\* the driver closes the connection c.db refers to; c.db itself is not
\* touched.  (GenV2: c.db.DB() answered without error when Open stored the
\* handle, and answers the same for the same handle.)
close(h) ==
  IF h = Nil THEN connState
  ELSE [connState EXCEPT ![h] = IF @ = "open" THEN "closed" ELSE @]

\* CloseBody with the handle cleared once the driver has closed it
CloseBodyResetsHandle(p) ==
  /\ ~crashed
  /\ pc[p] = "close_body"
  /\ connState' = close(db)
  /\ db' = Nil
  /\ \E e \in (IF db = Nil THEN {"nil"} ELSE {"nil", "err"}) :
       err' = [err EXCEPT ![p] = e]
  /\ evlog' = [evlog EXCEPT ![p] = IF db = Nil THEN @ ELSE @ \o <<"close">>]
  /\ Goto(p, "close_unlock")
  /\ UNCHANGED <<cfg, lastSet, other, gen, dbDriver, lock, models, associationFunc, crashed,
                 stable, ctxDone, kaTicks, kaPings, ret, regDone>>
  /\ UNCHANGED <<ctx, h0, attempted, args, local, outer>>

\* if c.db == nil { return nil }; return c.db.Close()
\* (the driver's close is the event "close")
CloseBody(p) ==
  /\ ~crashed
  /\ pc[p] = "close_body"
  /\ connState' = close(db)
  /\ \E e \in (IF db = Nil THEN {"nil"} ELSE {"nil", "err"}) :
       err' = [err EXCEPT ![p] = e]
  /\ evlog' = [evlog EXCEPT ![p] = IF db = Nil THEN @ ELSE @ \o <<"close">>]
  /\ Goto(p, "close_unlock")
  /\ UNCHANGED <<cfg, lastSet, other, gen, dbDriver, db, lock, models, associationFunc, crashed,
                 stable, ctxDone, kaTicks, kaPings, ret, regDone>>
  /\ UNCHANGED <<ctx, h0, attempted, args, local, outer>>

CloseUnlock(p) ==
  /\ ~crashed
  /\ pc[p] = "close_unlock"
  /\ Unlock(p)
  /\ Return(p)
  /\ UNCHANGED ret
  /\ UNCHANGED shared

\* ---------------------------------------------------------- Register
\* calls in flight that still have a model to append
PendingModels ==
  Cardinality({q \in Procs : /\ pc[q] \in {"reg_lock", "reg_append", "ct_read", "ct_write"}
                             /\ args[q] # <<>>})
PendingFuncs ==
  Cardinality({q \in Procs : pc[q] \in {"raf_lock", "raf_append"}})

\* arguments of RegisterAssociationFunc: a nil function, or a function that
\* was not registered before (functions are numbered as they are handed in)
FuncArgs == {<<NilFunc>>, <<Len(associationFunc) + PendingFuncs + 1>>}

RegisterCall(p, a) ==
  /\ Len(models) + PendingModels + Len(a) <= MaxModels
  /\ Start(p, "reg_lock", a, "call")
  /\ UNCHANGED lock
  /\ UNCHANGED shared

RegisterLock(p) ==
  /\ ~crashed
  /\ pc[p] = "reg_lock"
  /\ Lock(p)
  /\ Goto(p, "reg_append")
  /\ UNCHANGED ret
  /\ UNCHANGED shared
  /\ UNCHANGED locals

\* c.models = append(c.models, models...), the deferred Unlock and the return
RegisterAppend(p) ==
  /\ ~crashed
  /\ pc[p] = "reg_append"
  /\ models' = models \o args[p]
  /\ regDone' = regDone \cup Elems(args[p])
  /\ Unlock(p)
  /\ Return(p)
  /\ UNCHANGED <<cfg, lastSet, other, gen, dbDriver, db, connState, associationFunc, crashed,
                 stable, ctxDone, kaTicks, kaPings, ret>>

\* ------------------------------------------- RegisterAssociationFunc
RegisterAssociationFuncCall(p, a) ==
  /\ Len(associationFunc) + PendingFuncs + Len(a) <= MaxFuncs
  /\ Start(p, "raf_lock", a, "call")
  /\ UNCHANGED lock
  /\ UNCHANGED shared

RegisterAssociationFuncLock(p) ==
  /\ ~crashed
  /\ pc[p] = "raf_lock"
  /\ Lock(p)
  /\ Goto(p, "raf_append")
  /\ UNCHANGED ret
  /\ UNCHANGED shared
  /\ UNCHANGED locals

\* c.associationFunc = append(c.associationFunc, funcs...), the deferred
\* Unlock and the return
RegisterAssociationFuncAppend(p) ==
  /\ ~crashed
  /\ pc[p] = "raf_append"
  /\ associationFunc' = associationFunc \o args[p]
  /\ Unlock(p)
  /\ Return(p)
  /\ UNCHANGED <<cfg, lastSet, other, gen, dbDriver, db, connState, models, crashed, stable,
                 ctxDone, kaTicks, kaPings, ret, regDone>>

\* ------------------------------------------------------ CreateTables
\* CreateTables takes no lock.  The driver events of a call are logged:
\*   "migrate"               AutoMigrate ran
\*   <<"hook", f>>           association function f was invoked
\*   "close", "panic", "nilpanic"
Log(p, e) == evlog' = [evlog EXCEPT ![p] = @ \o e]

CreateTablesCall(p, a) ==
  /\ Len(models) + PendingModels + Len(a) <= MaxModels
  /\ Start(p, "ct_read", a, "call")
  /\ UNCHANGED lock
  /\ UNCHANGED shared

\* c.models = append(c.models, models...): the read of c.models ...
CreateTablesRead(p) ==
  /\ ~crashed
  /\ pc[p] = "ct_read"
  /\ local' = [local EXCEPT ![p] = models]
  /\ Goto(p, "ct_write")
  /\ UNCHANGED <<lock, ret, ctx, err, h0, attempted, args, evlog, outer>>
  /\ UNCHANGED shared

\* ... and the write of the appended list
CreateTablesWrite(p) ==
  /\ ~crashed
  /\ pc[p] = "ct_write"
  /\ models' = local[p] \o args[p]
  /\ local' = [local EXCEPT ![p] = <<>>]
  /\ Goto(p, "ct_migrate")
  /\ UNCHANGED <<cfg, lastSet, other, gen, dbDriver, db, connState, lock, associationFunc, crashed,
                 stable, ctxDone, kaTicks, kaPings, ret, regDone>>
  /\ UNCHANGED <<ctx, err, h0, attempted, args, evlog, outer>>

\* c.db.AutoMigrate on a nil handle dereferences nil
CreateTablesNilHandle(p) ==
  /\ ~crashed
  /\ pc[p] = "ct_migrate"
  /\ db = Nil
  /\ Log(p, <<"nilpanic">>)
  /\ Panic(p, "panicked")
  /\ UNCHANGED <<cfg, lastSet, other, gen, dbDriver, db, connState, lock, models, associationFunc,
                 stable, ctxDone, kaTicks, kaPings, ret, regDone>>
  /\ UNCHANGED <<ctx, err, h0, attempted, args, local, outer>>

\* what AutoMigrate answers: on a connection that is not open, an error
MigrateOutcomes == IF connState[db] = "open" THEN {"nil", "err"} ELSE {"err"}

\* where CreateTables goes after AutoMigrate answered e, had it ignored e
AfterMigrateIgnoringError(e) == "ct_hooks"

\* if err := c.db.AutoMigrate(c.models...); err != nil { c.close(); panic(err) }
AfterMigrate(e) == IF e = "nil" THEN "ct_hooks" ELSE "ct_close"

\* c.db.AutoMigrate(c.models...)
CreateTablesMigrate(p) ==
  /\ ~crashed
  /\ pc[p] = "ct_migrate"
  /\ db # Nil
  /\ Log(p, <<"migrate">>)
  /\ \E e \in MigrateOutcomes :
       /\ err' = [err EXCEPT ![p] = e]
       /\ Goto(p, AfterMigrate(e))
  /\ args' = [args EXCEPT ![p] = <<>>]
  /\ UNCHANGED <<lock, ret, ctx, h0, attempted, local, outer>>
  /\ UNCHANGED shared

\* c.close() (GenV2) / c.db.Close() on the failure path
CreateTablesClose(p) ==
  /\ ~crashed
  /\ pc[p] = "ct_close"
  /\ connState' = close(db)
  /\ Log(p, <<"close">>)
  /\ Goto(p, "ct_panic")
  /\ UNCHANGED <<cfg, lastSet, other, gen, dbDriver, db, lock, models, associationFunc, crashed,
                 stable, ctxDone, kaTicks, kaPings, ret, regDone>>
  /\ UNCHANGED <<ctx, err, h0, attempted, args, local, outer>>

\* panic(err)
CreateTablesPanic(p) ==
  /\ ~crashed
  /\ pc[p] = "ct_panic"
  /\ Log(p, <<"panic">>)
  /\ Panic(p, "panicked")
  /\ UNCHANGED <<cfg, lastSet, other, gen, dbDriver, db, connState, lock, models, associationFunc,
                 stable, ctxDone, kaTicks, kaPings, ret, regDone>>
  /\ UNCHANGED <<ctx, err, h0, attempted, args, local, outer>>

\* the hook events of: for _, fc := range fs { if fc != nil { fc(c.db) } }
RECURSIVE Hooks(_)
Hooks(fs) ==
  IF fs = <<>> THEN <<>>
  ELSE (IF Head(fs) # NilFunc THEN << <<"hook", Head(fs)>> >> ELSE <<>>)
       \o Hooks(Tail(fs))

\* the loop over c.associationFunc
CreateTablesHooks(p) ==
  /\ ~crashed
  /\ pc[p] = "ct_hooks"
  /\ Log(p, Hooks(associationFunc))
  /\ Goto(p, "ct_done")
  /\ UNCHANGED <<lock, ret, ctx, err, h0, attempted, args, local, outer>>
  /\ UNCHANGED shared

\* return c
CreateTablesReturn(p) ==
  /\ ~crashed
  /\ pc[p] = "ct_done"
  /\ Return(p)
  /\ UNCHANGED <<lock, ret>>
  /\ UNCHANGED shared

\* ------------------------------------------------------- OpenUntilOk
OpenUntilOkCall(p) ==
  /\ Start(p, "open_lock", <<>>, "first")
  /\ UNCHANGED lock
  /\ UNCHANGED shared

\* OpenUntilOk returns true: to its caller, or into the rest of the combined
\* operation that called it (DropTableIfExists or CreateTables comes next)
OpenUntilOkReturnsTrue(p) ==
  /\ ret' = [ret EXCEPT ![p] = "true"]
  /\ IF outer[p] = "none"
       THEN Return(p)
       ELSE /\ Goto(p, IF outer[p] = "dropcreate" THEN "drop" ELSE "ct_read")
            /\ ctx' = [ctx EXCEPT ![p] = "call"]
            /\ h0' = [h0 EXCEPT ![p] = FALSE]
            /\ attempted' = [attempted EXCEPT ![p] = FALSE]
            /\ UNCHANGED <<err, args, local, evlog, outer>>

\* if err := c.Open(); err == nil { return true }
OpenUntilOkFirst(p) ==
  /\ ~crashed
  /\ pc[p] = "ouo_first"
  /\ IF err[p] = "nil"
       THEN OpenUntilOkReturnsTrue(p)
       ELSE Stay(p, "ouo_wait") /\ UNCHANGED ret
  /\ UNCHANGED lock
  /\ UNCHANGED shared

\* for range time.NewTicker(retryInterval).C: a tick arrives, c.Open() is
\* called again
OpenUntilOkTick(p) ==
  /\ ~crashed
  /\ pc[p] = "ouo_wait"
  /\ Goto(p, "open_lock")
  /\ ctx' = [ctx EXCEPT ![p] = "loop"]
  /\ h0' = [h0 EXCEPT ![p] = (db # Nil)]
  /\ attempted' = [attempted EXCEPT ![p] = FALSE]
  /\ err' = [err EXCEPT ![p] = "nil"]
  /\ evlog' = [evlog EXCEPT ![p] = <<>>]
  /\ UNCHANGED <<lock, ret, args, local, outer>>
  /\ UNCHANGED shared

\* the loop's body after c.Open() returned.  GenDb: an error is logged and
\* ends the call with false, success breaks out of the loop; the later
\* generations return true on success, and on error log it (c.log.Error,
\* c.Log.Println of the logger the instance was built with) and go round
\* again.  evlog holds the events since the last tick.
OpenUntilOkLoop(p) ==
  /\ ~crashed
  /\ pc[p] = "ouo_loop"
  /\ (gen = "GenDb" /\ err[p] # "nil") => outer[p] = "none"
  /\ IF err[p] = "nil"
       THEN OpenUntilOkReturnsTrue(p)
       ELSE IF gen = "GenDb"
         THEN Return(p) /\ ret' = [ret EXCEPT ![p] = "false"]
         ELSE /\ Goto(p, "ouo_wait")
              /\ Log(p, <<"log">>)
              /\ UNCHANGED <<ctx, err, h0, attempted, args, local, ret, outer>>
  /\ UNCHANGED lock
  /\ UNCHANGED shared

\* ----------------------------------------------- combined operations
\* OpenUntilOkAndCreateTables(retryInterval, models...): OpenUntilOk comes
\* first, CreateTables(models...) after it returned
OpenUntilOkAndCreateTablesCall(p, a) ==
  /\ Len(models) + PendingModels + Len(a) <= MaxModels
  /\ ~crashed
  /\ pc[p] = "idle"
  /\ Goto(p, "open_lock")
  /\ ret' = [ret EXCEPT ![p] = NoRet]
  /\ args' = [args EXCEPT ![p] = a]
  /\ ctx' = [ctx EXCEPT ![p] = "first"]
  /\ h0' = [h0 EXCEPT ![p] = (db # Nil)]
  /\ outer' = [outer EXCEPT ![p] = "create"]
  /\ UNCHANGED <<err, attempted, local, evlog>>
  /\ UNCHANGED lock
  /\ UNCHANGED shared

\* OpenUntilOkAndDropTableIfExistsThenCreateTables(retryInterval, models...)
\* (GenV2 only): OpenUntilOk, then DropTableIfExists(models...), then
\* CreateTables(models...)
OpenUntilOkAndDropTableIfExistsThenCreateTablesCall(p, a) ==
  /\ gen = "GenV2"
  /\ Len(models) + PendingModels + Len(a) <= MaxModels
  /\ ~crashed
  /\ pc[p] = "idle"
  /\ Goto(p, "open_lock")
  /\ ret' = [ret EXCEPT ![p] = NoRet]
  /\ args' = [args EXCEPT ![p] = a]
  /\ ctx' = [ctx EXCEPT ![p] = "first"]
  /\ h0' = [h0 EXCEPT ![p] = (db # Nil)]
  /\ outer' = [outer EXCEPT ![p] = "dropcreate"]
  /\ UNCHANGED <<err, attempted, local, evlog>>
  /\ UNCHANGED lock
  /\ UNCHANGED shared

\* if c.OpenUntilOk(retryInterval) { ... } else { panic("open db failed") }:
\* OpenUntilOk logged the error and returned false (GenDb)
OpenUntilOkAndCreateTablesPanic(p) ==
  /\ ~crashed
  /\ pc[p] = "ouo_loop"
  /\ gen = "GenDb"
  /\ err[p] # "nil"
  /\ outer[p] # "none"
  /\ Log(p, <<"log", "panic">>)
  /\ Panic(p, "panicked")
  /\ UNCHANGED <<cfg, lastSet, other, gen, dbDriver, db, connState, lock, models, associationFunc,
                 stable, ctxDone, kaTicks, kaPings, ret, regDone>>
  /\ UNCHANGED <<ctx, err, h0, attempted, args, local, outer>>

\* what Migrator().DropTable answers: on a connection that is not open, an
\* error
DropOutcomes == IF connState[db] = "open" THEN {"nil", "err"} ELSE {"err"}

\* if err := c.Db().Migrator().DropTable(models...); err != nil && c.log != nil
\*   { c.log.Error(nil, err.Error()) }
\* (c.log is logger.Default, set by New)
DropEvents(e) == IF e = "nil" THEN <<"drop">> ELSE <<"drop", "log">>

\* DropTableIfExists(models...) returns c, and CreateTables is called on it.
\* (OpenUntilOk returned true, so c.db was assigned, and nothing clears it.)
DropTableIfExists(p) ==
  /\ ~crashed
  /\ pc[p] = "drop"
  /\ db # Nil
  /\ \E e \in DropOutcomes : Log(p, DropEvents(e))
  /\ Goto(p, "ct_read")
  /\ UNCHANGED <<lock, ret, ctx, err, h0, attempted, args, local, outer>>
  /\ UNCHANGED shared

\* --------------------------------------------------------- Keepalive
\* (GenV2 only)
KeepaliveCall(p) ==
  /\ gen = "GenV2"
  /\ Start(p, "ka_select", <<>>, "call")
  /\ UNCHANGED lock
  /\ UNCHANGED shared

\* case <-ctx.Done(): return
KeepaliveDone(p) ==
  /\ ~crashed
  /\ pc[p] = "ka_select"
  /\ ctxDone
  /\ Return(p)
  /\ UNCHANGED <<lock, ret>>
  /\ UNCHANGED shared

\* case <-tick.C with c.db == nil: CommonDB calls c.Db().DB() (or, with
\* debug, c.db.Debug()) on the nil *gorm.DB, which dereferences it
KeepaliveTickNilHandle(p) ==
  /\ ~crashed
  /\ pc[p] = "ka_select"
  /\ db = Nil
  /\ Panic(p, "panicked")
  /\ UNCHANGED <<cfg, lastSet, other, gen, dbDriver, db, connState, lock, models, associationFunc,
                 stable, ctxDone, kaTicks, kaPings, ret, regDone>>
  /\ UNCHANGED locals

\* case <-tick.C: db.Ping(); its error is logged and its result dropped
KeepaliveTick(p) ==
  /\ ~crashed
  /\ pc[p] = "ka_select"
  /\ db # Nil
  /\ kaTicks < MaxTicks
  /\ kaTicks' = kaTicks + 1
  /\ kaPings' = kaPings + 1
  /\ UNCHANGED <<cfg, lastSet, other, gen, dbDriver, db, connState, lock, models, associationFunc,
                 crashed, stable, ctxDone, pc, ret, regDone>>
  /\ UNCHANGED locals

\* ------------------------------------------------------- environment
\* the context passed to Keepalive is cancelled
Cancel ==
  /\ ~crashed
  /\ ~ctxDone
  /\ ctxDone' = TRUE
  /\ UNCHANGED <<cfg, lastSet, other, gen, dbDriver, db, connState, lock, models, associationFunc,
                 crashed, stable, kaTicks, kaPings, pc, ret, regDone>>
  /\ UNCHANGED locals

\* from now on the database accepts every connection
Stabilise ==
  /\ ~crashed
  /\ ~stable
  /\ stable' = TRUE
  /\ UNCHANGED <<cfg, lastSet, other, gen, dbDriver, db, connState, lock, models, associationFunc,
                 crashed, ctxDone, kaTicks, kaPings, pc, ret, regDone>>
  /\ UNCHANGED locals

\* ------------------------------------------- package-level functions
\* c.Db(): return c.db (the result names the field; its value is db)
DbCall(p) ==
  /\ ~crashed
  /\ pc[p] = "idle"
  /\ ret' = [ret EXCEPT ![p] = IF db = Nil THEN "nil" ELSE "c.db"]
  /\ UNCHANGED <<pc, lock>>
  /\ UNCHANGED shared
  /\ UNCHANGED locals

\* c.CommonDB() with c.db == nil: c.Db().DB() / c.Db().CommonDB() dereferences
\* the nil *gorm.DB
CommonDBNilHandle(p) ==
  /\ ~crashed
  /\ pc[p] = "idle"
  /\ gen # "GenDb"
  /\ db = Nil
  /\ Panic(p, "panicked")
  /\ UNCHANGED <<cfg, lastSet, other, gen, dbDriver, db, connState, lock, models, associationFunc,
                 stable, ctxDone, kaTicks, kaPings, ret, regDone>>
  /\ UNCHANGED locals

\* c.CommonDB(): the *sql.DB of the handle (for a handle gorm.Open returned,
\* DB() gives no error and CommonDB() is a *sql.DB)
CommonDBCall(p) ==
  /\ ~crashed
  /\ pc[p] = "idle"
  /\ gen # "GenDb"
  /\ db # Nil
  /\ ret' = [ret EXCEPT ![p] = "c.db.DB()"]
  /\ UNCHANGED <<pc, lock>>
  /\ UNCHANGED shared
  /\ UNCHANGED locals

SetterNames ==
  {"SetDbParam", "SetPgParam", "SetMysqlParam", "SetSqlite3Param",
   "SetMssqlParam", "SetSqlServerParam"}

\* the call c.m(a...) on the default instance, c == defaultDb
MethodCall(p, m, a) ==
  CASE m \in SetterNames -> a.fn = m /\ Setter(p, a)
    [] m = "Db" -> DbCall(p)
    [] m = "Open" -> OpenCall(p)
    [] m = "Close" -> CloseCall(p)
    [] m = "Register" -> RegisterCall(p, a)
    [] m = "RegisterAssociationFunc" -> RegisterAssociationFuncCall(p, a)
    [] m = "OpenUntilOk" -> OpenUntilOkCall(p)
    [] m = "CreateTables" -> CreateTablesCall(p, a)
    [] m = "OpenUntilOkAndCreateTables" -> OpenUntilOkAndCreateTablesCall(p, a)
    [] m = "OpenUntilOkAndDropTableIfExistsThenCreateTables" ->
         OpenUntilOkAndDropTableIfExistsThenCreateTablesCall(p, a)
    [] m = "CommonDB" -> CommonDBNilHandle(p) \/ CommonDBCall(p)
    [] m = "Keepalive" -> KeepaliveCall(p)

\* the call c.m(a...) on the second instance, which its owner configures
\* and registers models with
OtherCall(p, m, a) ==
  /\ ~crashed
  /\ pc[p] = "idle"
  /\ CASE m \in SetterNames ->
            /\ a.fn = m
            /\ a \in SetterCalls(gen)
            /\ (gen = "GenV2" /\ DriverOf(m) = "postgres") =>
                 Len(other.cfg.dsn) <= MaxDsnLen
            /\ other' = [other EXCEPT
                           !.cfg = ApplySetter(gen, @, a),
                           !.dbDriver = IF gen \in {"GenMulti", "GenV2"}
                                          THEN DriverOf(m) ELSE @]
       [] m = "Register" ->
            /\ Len(other.models) + Len(a) <= MaxModels
            /\ other' = [other EXCEPT !.models = @ \o a]
       [] OTHER -> FALSE
  /\ UNCHANGED <<cfg, lastSet, gen, dbDriver, db, connState, lock, models, associationFunc,
                 crashed, stable, ctxDone, kaTicks, kaPings, pc, ret, regDone>>
  /\ UNCHANGED locals

\* c.m(a...) on instance recv
Invoke(p, recv, m, a) ==
  IF recv = "defaultDb" THEN MethodCall(p, m, a) ELSE OtherCall(p, m, a)

\* the package-level functions of each generation
PkgFuncs(g) ==
  {"SetDbParam", "Db", "Open", "Close", "Register", "RegisterAssociationFunc",
   "OpenUntilOk", "CreateTables", "OpenUntilOkAndCreateTables"}
  \cup (IF g # "GenDb" THEN {"CommonDB"} ELSE {})
  \cup (IF g = "GenMulti"
          THEN {"SetPgParam", "SetMysqlParam", "SetSqlite3Param", "SetMssqlParam"}
          ELSE {})
  \cup (IF g = "GenV2"
          THEN {"SetPgParam", "SetMysqlParam", "SetSqlite3Param", "SetSqlServerParam",
                "OpenUntilOkAndDropTableIfExistsThenCreateTables", "Keepalive"}
          ELSE {})

\* the methods of each generation: those of the same names, except that
\* GenMulti has no method SetDbParam
Methods(g) == PkgFuncs(g) \ (IF g = "GenMulti" THEN {"SetDbParam"} ELSE {})

\* Forward with Register sent to another instance than the default one
ForwardRegisterElsewhere(g, fn) ==
  [recv |-> IF fn = "Register" THEN "other" ELSE "defaultDb",
   method |-> IF g = "GenMulti" /\ fn = "SetDbParam" THEN "SetPgParam" ELSE fn]

\* func fn(args) { return defaultDb.fn(args) }; in GenMulti SetDbParam is
\* return SetPgParam(args), which is return defaultDb.SetPgParam(args)
Forward(g, fn) ==
  [recv |-> "defaultDb",
   method |-> IF g = "GenMulti" /\ fn = "SetDbParam" THEN "SetPgParam" ELSE fn]

\* one call of each setter: a port, no ssl, and the MySQL options left out
OneCallEach(g) ==
  {a \in SetterCalls(g) :
     a.port # "" /\ ~a.ssl /\ a.charset = "" /\ a.loc = "" /\ ~a.parseTime}

\* Register's argument: the first model
OneModel == {<<m>> : m \in {n \in ModelIds : \A k \in ModelIds : n <= k}}

\* the arguments callers pass to a package-level function
PkgArgs(g, fn) ==
  CASE fn \in SetterNames ->
         {[a EXCEPT !.fn = fn] : a \in {b \in OneCallEach(g) : b.fn = Forward(g, fn).method}}
    [] fn = "Register" -> OneModel
    [] fn = "RegisterAssociationFunc" -> {<<NilFunc>>}
    [] OTHER -> {<<>>}

\* the argument list as the forwarded call passes it on
PassOn(m, a) == IF m \in SetterNames THEN [a EXCEPT !.fn = m] ELSE a

\* a call of the package-level function fn
PkgCall(p, fn, a) ==
  /\ fn \in PkgFuncs(gen)
  /\ a \in PkgArgs(gen, fn)
  /\ Invoke(p, Forward(gen, fn).recv, Forward(gen, fn).method,
            PassOn(Forward(gen, fn).method, a))

\* ---------------------------------------------------- specifications
\* the steps inside Open, Close and OpenUntilOk
OpenStep(p) ==
  \/ OpenCheck(p)
  \/ OpenAttempt(p)
  \/ OpenUnlock(p)
UnconfiguredStep(p) ==
  \/ OpenNilFunc(p)
  \/ OpenNotSupported(p)
CloseStep(p) ==
  \/ CloseBody(p)
  \/ CloseUnlock(p)
OpenUntilOkStep(p) ==
  \/ OpenUntilOkFirst(p)
  \/ OpenUntilOkTick(p)
  \/ OpenUntilOkLoop(p)
RegisterStep(p) ==
  \/ RegisterLock(p)
  \/ RegisterAppend(p)
RegisterAssociationFuncStep(p) ==
  \/ RegisterAssociationFuncLock(p)
  \/ RegisterAssociationFuncAppend(p)
CreateTablesStep(p) ==
  \/ CreateTablesRead(p)
  \/ CreateTablesWrite(p)
  \/ CreateTablesMigrate(p)
  \/ CreateTablesClose(p)
  \/ CreateTablesPanic(p)
  \/ CreateTablesHooks(p)
  \/ CreateTablesReturn(p)

\* Spec: goroutines call Set*Param, Open, Close, OpenUntilOk, Register and
\* CreateTables in any order and interleaving.
Next ==
  \/ \E p \in Procs, d \in SetterInputs : SetParam(p, d)
  \/ \E p \in Procs : OpenCall(p)
  \/ \E p \in Procs : CloseCall(p)
  \/ \E p \in Procs : OpenUntilOkCall(p)
  \/ \E p \in Procs, a \in ModelArgs : RegisterCall(p, a)
  \/ \E p \in Procs, a \in ModelArgs : CreateTablesCall(p, a)
  \/ \E p \in Procs : OpenLock(p)
  \/ \E p \in Procs : CloseLock(p)
  \/ \E p \in Procs : OpenStep(p)
  \/ \E p \in Procs : UnconfiguredStep(p)
  \/ \E p \in Procs : CloseStep(p)
  \/ \E p \in Procs : OpenUntilOkStep(p)
  \/ \E p \in Procs : RegisterStep(p)
  \/ \E p \in Procs : CreateTablesStep(p)
  \/ \E p \in Procs : CreateTablesNilHandle(p)

Spec == Init /\ [][Next]_vars

\* SpecHooks: a configured DbMgt; goroutines call Open,
\* RegisterAssociationFunc and CreateTables in any order and interleaving.
InitHooks == gen \in Gens /\ dbDriver = "postgres" /\ InitCommon

NextHooks ==
  \/ \E p \in Procs : OpenCall(p)
  \/ \E p \in Procs, a \in FuncArgs : RegisterAssociationFuncCall(p, a)
  \/ \E p \in Procs, a \in ModelArgs : CreateTablesCall(p, a)
  \/ \E p \in Procs : OpenLock(p)
  \/ \E p \in Procs : OpenStep(p)
  \/ \E p \in Procs : RegisterAssociationFuncStep(p)
  \/ \E p \in Procs : CreateTablesStep(p)
  \/ \E p \in Procs : CreateTablesNilHandle(p)

SpecHooks == InitHooks /\ [][NextHooks]_vars

\* SpecCombined: a configured DbMgt; goroutines call the combined
\* operations beside Open and Close callers.
CombinedStep(p) ==
  \/ OpenUntilOkAndCreateTablesPanic(p)
  \/ DropTableIfExists(p)

NextCombined ==
  \/ \E p \in Procs, a \in ModelArgs : OpenUntilOkAndCreateTablesCall(p, a)
  \/ \E p \in Procs, a \in ModelArgs :
       OpenUntilOkAndDropTableIfExistsThenCreateTablesCall(p, a)
  \/ \E p \in Procs : OpenCall(p)
  \/ \E p \in Procs : CloseCall(p)
  \/ \E p \in Procs : OpenLock(p)
  \/ \E p \in Procs : CloseLock(p)
  \/ \E p \in Procs : OpenStep(p)
  \/ \E p \in Procs : CloseStep(p)
  \/ \E p \in Procs : OpenUntilOkStep(p)
  \/ \E p \in Procs : CombinedStep(p)
  \/ \E p \in Procs : CreateTablesStep(p)

SpecCombined == InitHooks /\ [][NextCombined]_vars

\* SpecPkg: one goroutine uses the package-level functions, the others
\* configure and fill a DbMgt of their own.
Caller == CHOOSE p \in Procs : \A q \in Procs : p <= q
\* (the context handed to Keepalive is never cancelled here)
KeepaliveStep(p) ==
  \/ KeepaliveTickNilHandle(p)
  \/ KeepaliveTick(p)

NextPkg ==
  \/ \E fn \in PkgFuncs(gen) : \E a \in PkgArgs(gen, fn) : PkgCall(Caller, fn, a)
  \/ \E p \in Procs \ {Caller}, a \in OneCallEach(gen) :
       DriverOf(a.fn) = "postgres" /\ OtherCall(p, a.fn, a)
  \/ \E p \in Procs \ {Caller}, a \in OneModel : OtherCall(p, "Register", a)
  \/ \E p \in Procs : OpenLock(p)
  \/ \E p \in Procs : CloseLock(p)
  \/ \E p \in Procs : OpenStep(p)
  \/ \E p \in Procs : UnconfiguredStep(p)
  \/ \E p \in Procs : CloseStep(p)
  \/ \E p \in Procs : OpenUntilOkStep(p)
  \/ \E p \in Procs : RegisterStep(p)
  \/ \E p \in Procs : RegisterAssociationFuncStep(p)
  \/ \E p \in Procs : CreateTablesStep(p)
  \/ \E p \in Procs : CreateTablesNilHandle(p)
  \/ \E p \in Procs : CombinedStep(p)
  \/ \E p \in Procs : KeepaliveStep(p)

SpecPkg == Init /\ [][NextPkg]_vars

\* SpecLive: OpenUntilOk beside concurrent Set*Param, Open and Close
\* callers, the database becoming stable at some point.  The Go scheduler
\* runs every runnable goroutine and the ticker keeps firing (weak fairness
\* of a goroutine's steps); sync.Mutex hands the lock to a goroutine that
\* keeps waiting for it (starvation mode: strong fairness of Lock).
ConnStep(p) == OpenStep(p) \/ UnconfiguredStep(p) \/ CloseStep(p) \/ OpenUntilOkStep(p)
ConnAcquire(p) == OpenLock(p) \/ CloseLock(p)

NextLive ==
  \/ \E p \in Procs, d \in SetterInputs : SetParam(p, d)
  \/ \E p \in Procs : OpenCall(p)
  \/ \E p \in Procs : CloseCall(p)
  \/ \E p \in Procs : OpenUntilOkCall(p)
  \/ \E p \in Procs : ConnStep(p)
  \/ \E p \in Procs : ConnAcquire(p)
  \/ Stabilise

FairLive == \A p \in Procs : WF_vars(ConnStep(p)) /\ SF_vars(ConnAcquire(p))
SpecLive == Init /\ [][NextLive]_vars /\ FairLive

\* SpecKeepalive: GenV2, configured, with Keepalive goroutines beside Open
\* and Close callers.  select takes a ready case at random, so a case that
\* stays ready is taken eventually (weak fairness of the Done case).
InitKeepalive == gen = "GenV2" /\ dbDriver = "postgres" /\ InitCommon

NextKeepalive ==
  \/ \E p \in Procs : OpenCall(p)
  \/ \E p \in Procs : CloseCall(p)
  \/ \E p \in Procs : KeepaliveCall(p)
  \/ \E p \in Procs : OpenLock(p)
  \/ \E p \in Procs : CloseLock(p)
  \/ \E p \in Procs : OpenStep(p)
  \/ \E p \in Procs : CloseStep(p)
  \/ \E p \in Procs : KeepaliveDone(p)
  \/ \E p \in Procs : KeepaliveTickNilHandle(p)
  \/ \E p \in Procs : KeepaliveTick(p)
  \/ Cancel

FairKeepalive == \A p \in Procs : WF_vars(KeepaliveDone(p))
SpecKeepalive == InitKeepalive /\ [][NextKeepalive]_vars /\ FairKeepalive

\* SpecDsn: goroutines call the setters with any of the arguments and call
\* Open and Close.
NextDsn ==
  \/ \E p \in Procs, a \in SetterCalls(gen) : Setter(p, a)
  \/ \E p \in Procs : OpenCall(p)
  \/ \E p \in Procs : CloseCall(p)
  \/ \E p \in Procs : OpenLock(p)
  \/ \E p \in Procs : CloseLock(p)
  \/ \E p \in Procs : OpenStep(p)
  \/ \E p \in Procs : UnconfiguredStep(p)
  \/ \E p \in Procs : CloseStep(p)

SpecDsn == Init /\ [][NextDsn]_vars

\* SpecMutex: a configured DbMgt; goroutines call the mutex-taking operations
\* Open, Close, Register and RegisterAssociationFunc, and CreateTables, in
\* any order and interleaving (one model, a nil function and no argument
\* being what they pass).  A runnable goroutine is run (weak fairness of
\* the steps that need no mutex); sync.Mutex hands the lock to a goroutine
\* that keeps waiting for it (strong fairness of Lock).
MutexAcquire(p) ==
  \/ OpenLock(p)
  \/ CloseLock(p)
  \/ RegisterLock(p)
  \/ RegisterAssociationFuncLock(p)
MutexBody(p) ==
  \/ OpenStep(p)
  \/ CloseStep(p)
  \/ RegisterAppend(p)
  \/ RegisterAssociationFuncAppend(p)

NextMutex ==
  \/ \E p \in Procs : OpenCall(p)
  \/ \E p \in Procs : CloseCall(p)
  \/ \E p \in Procs : RegisterCall(p, <<1>>)
  \/ \E p \in Procs : RegisterAssociationFuncCall(p, <<NilFunc>>)
  \/ \E p \in Procs : CreateTablesCall(p, <<>>)
  \/ \E p \in Procs : MutexAcquire(p)
  \/ \E p \in Procs : MutexBody(p)
  \/ \E p \in Procs : CreateTablesStep(p)
  \/ \E p \in Procs : CreateTablesNilHandle(p)

FairMutex == \A p \in Procs : WF_vars(MutexBody(p)) /\ SF_vars(MutexAcquire(p))
SpecMutex == InitHooks /\ [][NextMutex]_vars /\ FairMutex

\* --------------------------------------------------------- properties
OpenPcs == {"open_lock", "open_check", "open_attempt", "open_unlock"}
\* the positions inside the body of Open or Close, between Lock and Unlock
CriticalPcs == {"open_check", "open_attempt", "open_unlock", "close_body", "close_unlock"}
\* goroutine p takes a step
Steps(p) == pc'[p] # pc[p]
\* goroutine p is inside an OpenUntilOk call
InOpenUntilOk(p) == pc[p] # "idle" /\ ctx[p] \in {"first", "loop"}
\* a connection whose open attempt succeeded
Opened(c) == connState[c] \in {"open", "closed"}
\* a driver has been chosen (GenDb and GenPg always use postgres)
Configured == gen \in {"GenDb", "GenPg"} \/ dbDriver \in Drivers

\* C1: an Open call that begins while the handle is present returns nil,
\* makes no connection attempt, and none of its steps changes the handle,
\* the connections or any other field of the DbMgt.
C1_OpenIdempotent ==
  [][\A p \in Procs :
       (pc[p] \in OpenPcs /\ h0[p] /\ Steps(p)) =>
         /\ ~attempted[p] /\ ~attempted'[p]
         /\ err[p] = "nil"
         /\ pc'[p] \in OpenPcs \cup {"idle", "ouo_first", "ouo_loop"}
         /\ UNCHANGED <<db, connState, models, associationFunc, dbDriver>>]_vars

\* an Open call on a present handle is about to return nil
C1_Witness ==
  \E p \in Procs : pc[p] = "open_unlock" /\ ctx[p] = "call" /\ h0[p] /\ db # Nil

\* C2: in every reachable state the handle is absent or refers to a
\* connection that is currently open.
C2_HandleAbsentOrOpen == db = Nil \/ connState[db] = "open"

C4_StopsOnlyOnSuccess ==
  [][\A p \in Procs :
       /\ (ret'[p] = "true" /\ ret[p] # "true") => (db' # Nil /\ Opened(db'))
       /\ (pc[p] \in {"ouo_first", "ouo_loop"} /\ err[p] = "nil" /\ Steps(p))
            => (pc'[p] = "idle" /\ ret'[p] = "true")]_vars

C6_FailedOpenLeavesHandleAbsent ==
  \A p \in Procs : (pc[p] = "open_unlock" /\ err[p] = "err") => db = Nil

\* C7: a CreateTables call whose auto-migration reported an error closes the
\* connection, then panics, and invokes no association function.
C7_MigrationFailure ==
  \A p \in Procs :
    (evlog[p] # <<>> /\ Head(evlog[p]) = "migrate" /\ err[p] = "err") =>
      \/ pc[p] = "ct_close" /\ evlog[p] = <<"migrate">>
      \/ pc[p] = "ct_panic" /\ evlog[p] = <<"migrate", "close">>
                            /\ connState[db] # "open"
      \/ pc[p] = "panicked" /\ evlog[p] = <<"migrate", "close", "panic">>
                            /\ connState[db] # "open"

\* a CreateTables call has panicked after a failed migration while a
\* non-nil association function was registered
C7_Witness ==
  \E p \in Procs :
    /\ pc[p] = "panicked"
    /\ evlog[p] = <<"migrate", "close", "panic">>
    /\ \E i \in 1..Len(associationFunc) : associationFunc[i] # NilFunc

NonNil(f) == f # NilFunc
\* the functions of a sequence of hook events
HookIds(es) == [i \in 1..Len(es) |-> es[i][2]]

\* C8: in a CreateTables call whose auto-migration succeeds, the migration
\* runs over every model registered so far and the call's arguments, and
\* after it every registered non-nil association function is invoked
\* exactly once, in registration order, nil entries being skipped.
C8_HooksAfterFullMigration ==
  [][\A p \in Procs :
       /\ (pc[p] = "ct_migrate" /\ pc'[p] = "ct_hooks")
            => (regDone \cup Elems(args[p])) \subseteq Elems(models)
       /\ (pc[p] = "ct_hooks" /\ Steps(p))
            => /\ evlog[p] = <<"migrate">>
               /\ \A i \in 2..Len(evlog'[p]) : evlog'[p][i][1] = "hook"
               /\ HookIds(Tail(evlog'[p])) = SelectSeq(associationFunc, NonNil)]_vars

\* C9: once the context is done a running Keepalive eventually returns; a
\* step issues at most one ping per tick, and only a running Keepalive pings.
C9_KeepaliveCancellable ==
  /\ \A p \in Procs : (ctxDone /\ pc[p] = "ka_select") ~> (pc[p] = "idle")
  /\ [][/\ kaPings' - kaPings <= kaTicks' - kaTicks
        /\ kaPings' # kaPings => \E p \in Procs : pc[p] = "ka_select"]_vars

C11_FailuresLogged ==
  [][\A p \in Procs :
       (pc[p] = "ouo_wait" /\ pc'[p] = "open_lock") => evlog[p] = <<"log">>]_vars

\* the connection string an Open attempt of goroutine p hands to gorm.Open
AttemptsMysql(p) ==
  pc[p] = "open_attempt" /\ gen \in {"GenMulti", "GenV2"} /\ dbDriver = "mysql"
UsedDsn == ConnTarget(gen, dbDriver, cfg)[2]
\* the literal pieces of a MySQL connection string
MysqlLiterals == {":", "@", "tcp", "(", ")/", "?charset=", "&parseTime=", "&loc="}
\* the value that follows key in connection string s ("" when none does)
ValueAfter(s, key) ==
  IF \E i \in 1..Len(s) : s[i] = key
    THEN LET i == CHOOSE j \in 1..Len(s) : s[j] = key
         IN IF i < Len(s) /\ s[i + 1] \notin MysqlLiterals THEN s[i + 1] ELSE ""
    ELSE ""
\* user:password@net(host:port)/name?charset=cs&parseTime=pt&loc=loc
MysqlForm(net, a, cs, loc) ==
  Str(a.user) \o <<":">> \o Str(a.password) \o <<"@">> \o Str(net) \o <<"(">>
  \o Str(a.host) \o <<":">> \o Str(a.port) \o <<")/">> \o Str(a.name)
  \o <<"?charset=">> \o Str(cs)
  \o <<"&parseTime=", BoolStr(a.parseTime)>>
  \o <<"&loc=">> \o Str(loc)

\* C12: the MySQL connection string of an Open attempt holds the user,
\* password, host, port and database name of the last SetMysqlParam call in
\* the form user:password@(host:port)/name (with or without the network
\* name), then charset, parseTime and loc, each under its own key; where the
\* call left charset or loc empty, any value may stand under that key.
C12_MysqlDsnComplete ==
  \A p \in Procs :
    AttemptsMysql(p) =>
      \E net \in {"", "tcp"} :
        UsedDsn = MysqlForm(net, lastSet,
                            IF lastSet.charset = ""
                              THEN ValueAfter(UsedDsn, "?charset=")
                              ELSE lastSet.charset,
                            IF lastSet.loc = ""
                              THEN ValueAfter(UsedDsn, "&loc=")
                              ELSE lastSet.loc)

\* C13: the MySQL connection string of an Open attempt has charset utf8
\* when the charset was left empty, loc Local when loc was left empty, and
\* parseTime True when ParseTime was never set.
C13_MysqlDefaults ==
  \A p \in Procs :
    AttemptsMysql(p) =>
      /\ lastSet.charset = "" => ValueAfter(UsedDsn, "?charset=") = "utf8"
      /\ lastSet.loc = "" => ValueAfter(UsedDsn, "&loc=") = "Local"
      /\ (gen = "GenMulti" /\ cfg.ParseTime = "")
           => ValueAfter(UsedDsn, "&parseTime=") = "True"

\* the driver a DbMgt has after its first setter call a
FreshDriver(a) == IF gen \in {"GenMulti", "GenV2"} THEN DriverOf(a.fn) ELSE ""

\* C17: the driver and connection string of an Open attempt are those a
\* fresh DbMgt has after the last setter call alone.
C17_LastSetterDecides ==
  \A p \in Procs :
    (pc[p] = "open_attempt" /\ lastSet # NoCall) =>
      ConnTarget(gen, dbDriver, cfg)
        = ConnTarget(gen, FreshDriver(lastSet), ApplySetter(gen, ZeroCfg, lastSet))

\* s is an initial part of t
IsPrefix(s, t) == Len(s) <= Len(t) /\ \A i \in 1..Len(s) : s[i] = t[i]

\* C15: no step removes or reorders an entry of the model list; the list
\* holds every model of a finished Register call, and every model a
\* CreateTables call has appended.
C15_NoModelLost ==
  [][/\ IsPrefix(models, models')
     /\ regDone' \subseteq Elems(models')
     /\ \A p \in Procs :
          (pc[p] = "ct_write" /\ Steps(p)) => Elems(args[p]) \subseteq Elems(models')]_vars

ClosePcs == {"close_lock", "close_body", "close_unlock"}

\* C19: no step of a Close call changes the handle; with the handle absent
\* Close returns nil and the driver is not called, with the handle present
\* the driver's close is invoked once, whatever it answers.
C19_CloseKeepsHandle ==
  [][\A p \in Procs :
       (pc[p] \in ClosePcs /\ Steps(p)) =>
         /\ db' = db
         /\ pc[p] = "close_body" =>
              IF db = Nil
                THEN err'[p] = "nil" /\ evlog'[p] = <<>> /\ connState' = connState
                ELSE evlog'[p] = <<"close">> /\ connState'[db] # "open"
         /\ pc[p] # "close_body" => evlog'[p] \in {evlog[p], <<>>}]_vars

\* a Close call on a present handle got an error from the driver's close
C19_Witness ==
  \E p \in Procs :
    pc[p] = "close_unlock" /\ db # Nil /\ evlog[p] = <<"close">> /\ err[p] = "err"

\* C20: a Keepalive tick never fails; with the handle absent it pings
\* nothing, with the handle present it pings once, and the loop goes on.
C20_KeepaliveAnyTime ==
  [][\A p \in Procs :
       pc[p] = "ka_select" =>
         /\ pc'[p] \in {"ka_select", "idle"}
         /\ ~crashed'
         /\ kaPings' - kaPings = (IF db = Nil THEN 0 ELSE kaTicks' - kaTicks)]_vars

\* the positions where a goroutine waits for the mutex, and those where it
\* holds it
LockPcs == {"open_lock", "close_lock", "reg_lock", "raf_lock"}
HoldPcs == CriticalPcs \cup {"reg_append", "raf_append"}

\* C18: the goroutine that holds the mutex is inside the body of one
\* operation and is not waiting for the mutex again; an operation that
\* returns, with or without an error, has released it; and a goroutine that
\* waits for the mutex gets it, unless a panic has ended the process.
C18_NoMutexDeadlock ==
  /\ [](\A p \in Procs : (lock = p <=> pc[p] \in HoldPcs) /\ (~crashed => lock \in Procs \cup {NoOwner}))
  /\ [][\A p \in Procs : (pc[p] # "idle" /\ pc'[p] = "idle") => lock' # p]_vars
  /\ \A p \in Procs : (pc[p] \in LockPcs) ~> (lock = p \/ crashed)

\* a goroutine waits for the mutex while another holds it on an error return
C18_Witness ==
  \E p, q \in Procs :
    /\ pc[p] = "open_unlock" /\ err[p] = "err" /\ lock = p
    /\ pc[q] \in LockPcs

\* C16: the combined operations run their steps in order.  When a combined
\* operation invokes the auto-migration, the handle it migrates on comes from
\* an Open attempt that succeeded; in
\* OpenUntilOkAndDropTableIfExistsThenCreateTables the drop (with its error,
\* if any, logged) is the goroutine's last event before the migration.
DropThenMigrate(p) ==
  outer[p] = "dropcreate" =>
    /\ evlog[p] \in {<<"drop">>, <<"drop", "log">>}
    /\ evlog'[p] = evlog[p] \o <<"migrate">>
C16_CombinedInOrder ==
  [][\A p \in Procs :
      (pc[p] = "ct_migrate" /\ Steps(p) /\ outer[p] # "none") =>
        /\ ret[p] = "true"
        /\ db # Nil /\ Opened(db)
        /\ DropThenMigrate(p)]_vars

====
